---- MODULE Spec2Model ----
(***************************************************************************)
(* Model of src/Image_Recognise.py: the image normaliser                   *)
(* (encode_image_to_base64), the detection client (call_n8n_api), the      *)
(* result extractor (extract_detected_objects), the renderer               *)
(* (display_detected_objects) and the button branch of main.               *)
(*                                                                         *)
(* Text is modelled as a sequence of tokens.  The tokens are the pieces    *)
(* the extractor's regular expression and json.loads tell apart:           *)
(*   "T" the three backticks, "J" the word json, "N" a newline,            *)
(*   "A" {"detected_objects":[cat,dog]}   "B" {"detected_objects":[dog,cat]}*)
(*   "E" {}   "V" {"detected_objects":5}   "L" [1]   "X" plain words       *)
(***************************************************************************)
EXTENDS Integers, Sequences, FiniteSets, TLC

VARIABLES pc, image, api_url, text_query, img_str, posts, inflight,
          outcome, body, api_response, detected_objects, loaded, called, ui,
          requests_lib

vars == <<pc, image, api_url, text_query, img_str, posts, inflight,
          outcome, body, api_response, detected_objects, loaded, called, ui,
          requests_lib>>

\* ------------------------------------------------------------------ bounds
MaxSegs == 3
MaxSegsMain == 1
MaxDim == 2
MaxPosts == 3

\* ------------------------------------------------------- image normaliser
Modes ==
    {"RGB", "RGBA", "LA", "P", "PA", "L", "CMYK", "1", "I", "F", "YCbCr",
     "RGBa", "La", "HSV", "RGBX", "I;16"}

BandsOf(mode) ==
    CASE mode = "RGB"   -> <<"R", "G", "B">>
      [] mode = "RGBA"  -> <<"R", "G", "B", "A">>
      [] mode = "LA"    -> <<"L", "A">>
      [] mode = "PA"    -> <<"P", "A">>
      [] mode = "CMYK"  -> <<"C", "M", "Y", "K">>
      [] mode = "YCbCr" -> <<"Y", "Cb", "Cr">>
      [] mode = "RGBa"  -> <<"R", "G", "B", "a">>
      [] mode = "La"    -> <<"L", "a">>
      [] mode = "HSV"   -> <<"H", "S", "V">>
      [] mode = "RGBX"  -> <<"R", "G", "B", "X">>
      [] OTHER          -> <<mode>>

\* A decoded image: its mode, its size, whether a palette image carries
\* transparency information, and how its pixels were produced.
Images ==
    { im \in [mode : Modes, w : 1..MaxDim, h : 1..MaxDim,
              transparency : BOOLEAN, how : {"decoded"}, mask : {"none"}] :
        im.transparency => im.mode = "P" }

NoImage ==
    [mode |-> "none", w |-> 0, h |-> 0, transparency |-> FALSE,
     how |-> "none", mask |-> "none"]

ImageNew(mode, w, h) ==
    [mode |-> mode, w |-> w, h |-> h, transparency |-> FALSE,
     how |-> "white", mask |-> "none"]

Convert(im, mode) ==
    [im EXCEPT !.mode = mode, !.how = "converted", !.transparency = FALSE]

\* image.split()[-1]
LastBand(im) == BandsOf(im.mode)[Len(BandsOf(im.mode))]

Paste(background, im, mask) ==
    [background EXCEPT !.how = "pasted", !.mask = mask]

NeedsCompositeNoPalette(mode) == mode \in {"RGBA", "LA"}

NeedsComposite(mode) == mode \in {"RGBA", "LA", "P"}

HasMaskBand(mode) == mode \in {"RGBA", "LA"}

Normalise(im) ==
    IF NeedsComposite(im.mode)
    THEN LET background == ImageNew("RGB", im.w, im.h)
             src == IF im.mode = "P" THEN Convert(im, "RGBA") ELSE im
             mask == IF HasMaskBand(src.mode) THEN LastBand(src) ELSE "none"
         IN  Paste(background, src, mask)
    ELSE IF im.mode # "RGB" THEN Convert(im, "RGB")
    ELSE im

Quality == 95

NoStr ==
    [format |-> "none", quality |-> 0, mode |-> "none", w |-> 0, h |-> 0,
     how |-> "none", mask |-> "none", bands |-> <<>>]

\* image.save(buffered, format="JPEG", quality=95) followed by b64encode:
\* the string stands for the picture that was handed to the JPEG encoder.
encode_image_to_base64(im) ==
    LET n == Normalise(im)
    IN  [format |-> "JPEG", quality |-> Quality, mode |-> n.mode,
         w |-> n.w, h |-> n.h, how |-> n.how, mask |-> n.mask,
         bands |-> BandsOf(n.mode)]

\* ------------------------------------------------------ result extractor
\* Pieces from which the service's output strings are built.
Segments ==
    { <<"T", "J", "N">>, <<"N", "T">>, <<"N">>, <<"T">>,
      <<"A">>, <<"E">>, <<"V">>, <<"L">>, <<"X">>,
      <<"T", "J", "N", "B", "N", "T">>, <<"T", "J", "N", "X", "N", "T">> }

RECURSIVE Concat(_)
Concat(ss) == IF ss = <<>> THEN <<>> ELSE Head(ss) \o Concat(Tail(ss))

Outputs(max) ==
    { Concat(ss) : ss \in UNION { [1..n -> Segments] : n \in 0..max } }

\* The value of "detected_objects", or of anything the extractor returns.
EmptyList == [type |-> "list", items |-> <<>>]
Unset == [type |-> "unset", items |-> <<>>]
NoneVal == [type |-> "null", items |-> <<>>]

\* json.loads of one complete JSON text.
ParseText(tok) ==
    CASE tok = "A" -> [kind |-> "obj", has |-> TRUE,
                       field |-> [type |-> "list", items |-> <<"cat", "dog">>]]
      [] tok = "B" -> [kind |-> "obj", has |-> TRUE,
                       field |-> [type |-> "list", items |-> <<"dog", "cat">>]]
      [] tok = "E" -> [kind |-> "obj", has |-> FALSE, field |-> Unset]
      [] tok = "V" -> [kind |-> "obj", has |-> TRUE,
                       field |-> [type |-> "num", items |-> <<>>]]
      [] OTHER     -> [kind |-> "list", has |-> FALSE, field |-> Unset]

JsonTexts == {"A", "B", "E", "V", "L"}

RECURSIVE LStrip(_)
LStrip(s) == IF s # <<>> /\ Head(s) = "N" THEN LStrip(Tail(s)) ELSE s

RECURSIVE RStrip(_)
RStrip(s) ==
    IF s # <<>> /\ s[Len(s)] = "N" THEN RStrip(SubSeq(s, 1, Len(s) - 1)) ELSE s

\* json.loads(s): white space around one JSON text is skipped; anything
\* else (no text, words, back-ticks, a second text) is a JSONDecodeError.
json_loads(s) ==
    LET core == RStrip(LStrip(s))
    IN  IF Len(core) = 1 /\ core[1] \in JsonTexts
        THEN [exc |-> "none", val |-> ParseText(core[1])]
        ELSE [exc |-> "JSONDecodeError",
              val |-> [kind |-> "none", has |-> FALSE, field |-> Unset]]

GetDetectedNoDefault(val) ==
    IF val.kind # "obj" THEN [exc |-> "AttributeError", val |-> Unset]
    ELSE IF val.has THEN [exc |-> "none", val |-> val.field]
    ELSE [exc |-> "none", val |-> NoneVal]

\* data.get("detected_objects", [])
GetDetected(val) ==
    IF val.kind # "obj" THEN [exc |-> "AttributeError", val |-> Unset]
    ELSE IF val.has THEN [exc |-> "none", val |-> val.field]
    ELSE [exc |-> "none", val |-> EmptyList]

IsAt(s, i, pat) ==
    /\ i >= 1
    /\ i + Len(pat) - 1 <= Len(s)
    /\ SubSeq(s, i, i + Len(pat) - 1) = pat

OpenFence == <<"T", "J", "N">>
CloseFence == <<"N", "T">>

Min(S) == CHOOSE x \in S : \A y \in S : x <= y
Max(S) == CHOOSE x \in S : \A y \in S : x >= y

\* positions k at which the text after the capture can start, for an
\* opening fence at i
Closings(s, i) == { k \in (i + 3)..Len(s) : IsAt(s, k, CloseFence) }

Openings(s) == { i \in 1..Len(s) : IsAt(s, i, OpenFence) /\ Closings(s, i) # {} }

\* the same search with a greedy capture (.*) in place of (.*?)
re_search_greedy(s) ==
    IF Openings(s) = {} THEN [found |-> FALSE, group1 |-> <<>>]
    ELSE LET i == Min(Openings(s))
             k == Max(Closings(s, i))
         IN  [found |-> TRUE, group1 |-> SubSeq(s, i + 3, k - 1)]

\* re.search(r'```json\n(.*?)\n```', output, re.DOTALL): the leftmost
\* match, and for it the shortest capture.
re_search(s) ==
    IF Openings(s) = {} THEN [found |-> FALSE, group1 |-> <<>>]
    ELSE LET i == Min(Openings(s))
             k == Min(Closings(s, i))
         IN  [found |-> TRUE, group1 |-> SubSeq(s, i + 3, k - 1)]

\* A parsed response body.  top is the JSON type of the whole value; for a
\* non-empty list, first is the type of its first element; for a first
\* element that is an object, outkind tells whether "output" is absent or
\* what type it has, and output is its text when it is a string.
Resp(top, first, outkind, output) ==
    [top |-> top, first |-> first, outkind |-> outkind, output |-> output]

ScalarTops ==
    {"null", "false", "true", "zero", "num", "emptystr", "str",
     "emptylist", "emptyobj", "obj"}

Responses(max) ==
    { Resp(t, "na", "na", <<>>) : t \in ScalarTops }
    \cup { Resp("list", f, "na", <<>>) : f \in {"num", "str", "null", "list"} }
    \cup { Resp("list", "dict", k, <<>>) : k \in {"absent", "num", "null"} }
    \cup { Resp("list", "dict", "str", o) : o \in Outputs(max) }

\* what call_n8n_api returns after a failure
None == Resp("None", "na", "na", <<>>)

\* Python truth value of a response
Truthy(r) == r.top \in {"true", "num", "str", "list", "obj"}

\* except Exception: every error the body can produce is an Exception
ExceptionClasses == {"AttributeError", "TypeError", "JSONDecodeError"}

OuterCatches(exc) == exc \in ExceptionClasses

InnerCatchesNothing(exc) == FALSE

\* the bare except: of the direct parse
InnerCatches(exc) == TRUE

Returned(v, texts) == [exc |-> "none", ret |-> v, loaded |-> texts]
Raised(e, texts) == [exc |-> e, ret |-> Unset, loaded |-> texts]

\* json.loads(text) followed by data.get("detected_objects", [])
LoadAndGet(text) ==
    LET j == json_loads(text)
        g == GetDetected(j.val)
    IN  IF j.exc # "none" THEN Raised(j.exc, <<text>>)
        ELSE IF g.exc # "none" THEN Raised(g.exc, <<text>>)
        ELSE Returned(g.val, <<text>>)

\* lines 115-119: the direct parse and its own handler
DirectParse(output) ==
    LET r == LoadAndGet(output)
    IN  IF r.exc # "none" /\ InnerCatches(r.exc)
        THEN Returned(EmptyList, r.loaded)
        ELSE r

\* lines 104-120: the body of the try block
ExtractBody(r) ==
    IF r.top = "list"
    THEN IF r.first # "dict" THEN Raised("AttributeError", <<>>)
         ELSE IF r.outkind \in {"num", "null"} THEN Raised("TypeError", <<>>)
         ELSE LET output == IF r.outkind = "absent" THEN <<>> ELSE r.output
                  json_match == re_search(output)
              IN  IF json_match.found
                  THEN LoadAndGet(json_match.group1)
                  ELSE DirectParse(output)
    ELSE Returned(EmptyList, <<>>)

\* lines 101-123.  diag tells whether st.error was called.
extract_detected_objects(r) ==
    LET b == ExtractBody(r)
    IN  IF b.exc # "none" /\ OuterCatches(b.exc)
        THEN [exc |-> "none", ret |-> EmptyList, diag |-> TRUE,
              loaded |-> b.loaded]
        ELSE [exc |-> b.exc, ret |-> b.ret, diag |-> FALSE,
              loaded |-> b.loaded]

\* ---------------------------------------------------------------- renderer
\* not detected_objects
Falsy(v) == v.type \in {"null", "unset"} \/ (v.type = "list" /\ v.items = <<>>)

\* lines 125-151: what the user is shown, and whether the loop failed
display_detected_objects(v) ==
    IF Falsy(v) THEN [shown |-> {"no_objects"}, exc |-> "none"]
    ELSE IF v.type = "list" THEN [shown |-> {"objects"}, exc |-> "none"]
    ELSE [shown |-> {"header"}, exc |-> "TypeError"]

\* -------------------------------------------------------- detection client
\* How one HTTP exchange ends: no connection, no answer within the 30 s
\* timeout, a status outside 2xx, a 2xx body that is not JSON, a 2xx body
\* that is JSON.
Failures == {"connection_error", "timeout", "http_error", "bad_json"}

Timeout == 30

\* Response.json() raises json.JSONDecodeError before requests 2.27 and
\* requests.exceptions.JSONDecodeError, a subclass of both
\* RequestException and json.JSONDecodeError, from 2.27 on.
RequestsLibs == {"pre-2.27", "2.27+"}

\* lines 91-93: the exception the try block ends with, if any
RaisedBy(o) ==
    CASE o = "connection_error" -> "ConnectionError"
      [] o = "timeout"          -> "Timeout"
      [] o = "http_error"       -> "HTTPError"
      [] o = "bad_json"         -> "JSONDecodeError"
      [] OTHER                  -> "none"

\* except requests.exceptions.RequestException
IsRequestException(exc, lib) ==
    \/ exc \in {"ConnectionError", "Timeout", "HTTPError"}
    \/ exc = "JSONDecodeError" /\ lib = "2.27+"

\* except json.JSONDecodeError
IsJSONDecodeError(exc, lib) == exc = "JSONDecodeError"

ResendAfterFailure(exc) == TRUE

\* lines 94-99: both handlers report and return None; neither sends again
ResendRequest(exc) == FALSE

\* lines 96 and 99: return None
FailureValue(exc, r) == None

\* lines 79-99, once the exchange has ended with outcome o and, for "ok",
\* the parsed body r
call_n8n_api(o, r, lib) ==
    LET exc == RaisedBy(o)
    IN  IF exc = "none"
        THEN [ret |-> r, msg |-> {}, exc |-> "none", resend |-> FALSE]
        ELSE IF IsRequestException(exc, lib)
        THEN [ret |-> FailureValue(exc, r), msg |-> {"request_failed"},
              exc |-> "none", resend |-> ResendRequest(exc)]
        ELSE IF IsJSONDecodeError(exc, lib)
        THEN [ret |-> FailureValue(exc, r), msg |-> {"parse_failed"},
              exc |-> "none", resend |-> ResendRequest(exc)]
        ELSE [ret |-> None, msg |-> {}, exc |-> exc, resend |-> FALSE]

\* --------------------------------------------------------------------- main
Urls == {"", "https://n8n/webhook"}
Queries == {"", "what is this?"}

NeverMissing(url) == FALSE

\* line 212: not api_url
UrlMissing(url) == url = ""

ProceedAlways(r) == TRUE

\* line 222: if api_response
Proceed(r) == Truthy(r)

Init ==
    /\ pc = "idle"
    /\ image = NoImage
    /\ api_url = ""
    /\ text_query = ""
    /\ img_str = NoStr
    /\ posts = 0
    /\ inflight = 0
    /\ outcome = "none"
    /\ body = None
    /\ api_response = None
    /\ detected_objects = Unset
    /\ loaded = <<>>
    /\ called = {}
    /\ ui = {}
    /\ requests_lib \in RequestsLibs

\* lines 211-220 up to the moment requests.post has sent the request:
\* the button is clicked with an image selected.
Analyze(im, url, q) ==
    /\ pc = "idle"
    /\ image' = im
    /\ api_url' = url
    /\ text_query' = q
    /\ IF UrlMissing(url)
       THEN /\ ui' = {"config_error"}
            /\ pc' = "done"
            /\ UNCHANGED <<img_str, posts, inflight, called>>
       ELSE /\ img_str' = encode_image_to_base64(im)
            /\ called' = {"encode_image_to_base64", "call_n8n_api"}
            /\ posts' = posts + 1
            /\ inflight' = inflight + 1
            /\ pc' = "waiting"
            /\ ui' = {"spinner"}
    /\ UNCHANGED <<outcome, body, api_response, detected_objects, loaded,
                   requests_lib>>

\* lines 91-99 and 222-229: the exchange ends and main runs to its end.
Respond(o, r) ==
    /\ pc = "waiting"
    /\ o = "ok" <=> r # None
    /\ LET c == call_n8n_api(o, r, requests_lib)
           e == extract_detected_objects(c.ret)
           d == display_detected_objects(e.ret)
       IN  /\ outcome' = o
           /\ body' = r
           /\ IF c.resend /\ posts < MaxPosts
              THEN /\ posts' = posts + 1
                   /\ inflight' = inflight
                   /\ pc' = "waiting"
                   /\ ui' = c.msg \cup {"spinner"}
                   /\ UNCHANGED <<api_response, detected_objects, loaded,
                                  called>>
              ELSE /\ posts' = posts
                   /\ inflight' = inflight - 1
                   /\ pc' = "done"
                   /\ api_response' = c.ret
                   /\ IF c.exc # "none"
                      THEN /\ ui' = {"exception"}
                           /\ UNCHANGED <<detected_objects, loaded, called>>
                      ELSE IF ~Proceed(c.ret)
                      THEN /\ ui' = c.msg
                           /\ UNCHANGED <<detected_objects, loaded, called>>
                      ELSE IF e.exc # "none"
                      THEN /\ ui' = c.msg \cup {"exception"}
                           /\ called' = called \cup {"extract_detected_objects"}
                           /\ loaded' = e.loaded
                           /\ UNCHANGED detected_objects
                      ELSE /\ detected_objects' = e.ret
                           /\ loaded' = e.loaded
                           /\ called' = called \cup
                                  {"extract_detected_objects",
                                   "display_detected_objects"}
                           /\ ui' = c.msg
                                  \cup (IF e.diag THEN {"extract_error"} ELSE {})
                                  \cup d.shown
                                  \cup (IF d.exc # "none" THEN {"exception"}
                                        ELSE {"raw_response"})
    /\ UNCHANGED <<image, api_url, text_query, img_str, requests_lib>>

\* Streamlit runs the script again from the top: what the last click
\* produced is gone.
Rerun ==
    /\ pc = "done"
    /\ pc' = "idle"
    /\ image' = NoImage
    /\ api_url' = ""
    /\ text_query' = ""
    /\ img_str' = NoStr
    /\ posts' = 0
    /\ inflight' = 0
    /\ outcome' = "none"
    /\ body' = None
    /\ api_response' = None
    /\ detected_objects' = Unset
    /\ loaded' = <<>>
    /\ called' = {}
    /\ ui' = {}
    /\ UNCHANGED requests_lib

Next ==
    \/ \E im \in Images, url \in Urls, q \in Queries : Analyze(im, url, q)
    \/ \E o \in Failures : Respond(o, None)
    \/ \E r \in Responses(MaxSegsMain) : Respond("ok", r)
    \/ Rerun

Spec == Init /\ [][Next]_vars

\* ------------------------------------------- the two functions on their own
\* encode_image_to_base64 applied to every image of the bounded set
InitEncode ==
    /\ pc = "encode"
    /\ image \in Images
    /\ api_url = ""
    /\ text_query = ""
    /\ img_str = NoStr
    /\ posts = 0
    /\ inflight = 0
    /\ outcome = "none"
    /\ body = None
    /\ api_response = None
    /\ detected_objects = Unset
    /\ loaded = <<>>
    /\ called = {}
    /\ ui = {}
    /\ requests_lib = "2.27+"

EncodeStep ==
    /\ pc = "encode"
    /\ img_str' = encode_image_to_base64(image)
    /\ called' = {"encode_image_to_base64"}
    /\ pc' = "encoded"
    /\ UNCHANGED <<image, api_url, text_query, posts, inflight, outcome, body,
                   api_response, detected_objects, loaded, ui, requests_lib>>

NextEncode == EncodeStep

SpecEncode == InitEncode /\ [][NextEncode]_vars

\* extract_detected_objects applied to every response of the bounded set,
\* and to None
InitExtract ==
    /\ pc = "extract"
    /\ image = NoImage
    /\ api_url = ""
    /\ text_query = ""
    /\ img_str = NoStr
    /\ posts = 0
    /\ inflight = 0
    /\ outcome = "none"
    /\ body = None
    /\ api_response \in Responses(MaxSegs) \cup {None}
    /\ detected_objects = Unset
    /\ loaded = <<>>
    /\ called = {}
    /\ ui = {}
    /\ requests_lib = "2.27+"

ExtractStep ==
    /\ pc = "extract"
    /\ LET e == extract_detected_objects(api_response)
       IN  /\ detected_objects' = e.ret
           /\ loaded' = e.loaded
           /\ ui' = (IF e.diag THEN {"extract_error"} ELSE {})
                    \cup (IF e.exc # "none" THEN {"exception"} ELSE {})
    /\ called' = {"extract_detected_objects"}
    /\ pc' = "extracted"
    /\ UNCHANGED <<image, api_url, text_query, img_str, posts, inflight,
                   outcome, body, api_response, requests_lib>>

NextExtract == ExtractStep

SpecExtract == InitExtract /\ [][NextExtract]_vars

\* =================================================================== claims
\* What the claims speak about, stated without the extractor's operators.
IsFencedAt(s, i, k) ==
    /\ IsAt(s, i, <<"T", "J", "N">>)
    /\ k >= i + 3
    /\ IsAt(s, k, <<"N", "T">>)

HasFence(s) == \E i \in 1..Len(s), k \in 1..Len(s) : IsFencedAt(s, i, k)

\* the bodies of the first fenced block: opened by the leftmost opening
\* fence that is closed at all, closed by the nearest closing fence
FirstBodies(s) ==
    { SubSeq(s, i + 3, k - 1) : <<i, k>> \in
        { p \in (1..Len(s)) \X (1..Len(s)) :
            /\ IsFencedAt(s, p[1], p[2])
            /\ \A i2 \in 1..(p[1] - 1), k2 \in 1..Len(s) : ~IsFencedAt(s, i2, k2)
            /\ \A k2 \in (p[1] + 3)..(p[2] - 1) : ~IsFencedAt(s, p[1], k2) } }

\* a text that is one JSON object, with nothing but newlines around it
ObjectTexts == {"A", "B", "E", "V"}

IsPadded(s, tok) ==
    \E i \in 1..Len(s) :
        /\ s[i] = tok
        /\ \A j \in (1..Len(s)) \ {i} : s[j] = "N"

IsObjectText(s) == \E tok \in ObjectTexts : IsPadded(s, tok)

\* the "detected_objects" the service put into the text, [] without one
Expected(s) ==
    IF IsPadded(s, "A") THEN [type |-> "list", items |-> <<"cat", "dog">>]
    ELSE IF IsPadded(s, "B") THEN [type |-> "list", items |-> <<"dog", "cat">>]
    ELSE IF IsPadded(s, "V") THEN [type |-> "num", items |-> <<>>]
    ELSE [type |-> "list", items |-> <<>>]

HasOutputString == api_response.top = "list" /\ api_response.first = "dict"
                   /\ api_response.outkind = "str"

\* C1: extract_detected_objects is total: for every input it returns a
\* sequence of detected objects (possibly empty) and never raises.
C1_TotalReturnsSequence ==
    pc = "extracted" =>
        /\ "exception" \notin ui
        /\ detected_objects.type = "list"

\* C2: with an empty endpoint URL the client is never invoked, no request
\* is sent, and only the configuration error is shown.
C2_NoUrlNoCall ==
    (pc # "idle" /\ api_url = "") =>
        /\ pc = "done"
        /\ called = {}
        /\ posts = 0 /\ inflight = 0
        /\ ui = {"config_error"}
        /\ img_str = NoStr
        /\ detected_objects = Unset

C2_Witness == pc = "done" /\ api_url = "" /\ ui = {"config_error"}

\* C3: when the client fails the run ends with an error message; the
\* extractor and the renderer are not invoked and neither objects nor the
\* raw response are shown.
C3_FailureEndsRun ==
    (pc = "done" /\ outcome \in Failures) =>
        /\ ui \in {{"request_failed"}, {"parse_failed"}}
        /\ "extract_detected_objects" \notin called
        /\ "display_detected_objects" \notin called
        /\ detected_objects = Unset

C3_Witness ==
    /\ pc = "done" /\ outcome = "http_error"
    /\ ui = {"request_failed"} /\ api_response = None

\* C4: when the client returns a parsed body, whatever its value, the
\* extractor runs and the user sees the objects or the "no objects" notice.
C4_SuccessShowsResult ==
    (pc = "done" /\ outcome = "ok") =>
        /\ "extract_detected_objects" \in called
        /\ ui \cap {"objects", "no_objects"} # {}

\* C5: each analysis action issues at most one POST; nothing is re-sent
\* after a failure and at most one request is in flight.
C5_SinglePost ==
    /\ posts <= 1
    /\ inflight <= 1
    /\ pc = "waiting" => (posts = 1 /\ inflight = 1)
    /\ pc = "done" => inflight = 0

C5_Witness == pc = "done" /\ outcome = "timeout" /\ posts = 1

\* C6: transport error, timeout and non-2xx are reported as a request
\* failure, a 2xx body that is not JSON as a response-parse failure; in
\* both cases the client returns None rather than raising.
C6_FailuresClassified ==
    (pc = "done" /\ outcome \in Failures) =>
        /\ api_response = None
        /\ "exception" \notin ui
        /\ outcome \in {"connection_error", "timeout", "http_error"}
               => ui = {"request_failed"}
        /\ outcome = "bad_json" => ui = {"parse_failed"}

\* C7: with a fenced json block in the output string, only the body of the
\* first block (up to the nearest closing fence) is parsed, and the result
\* is its "detected_objects" in the service's order, or [] without that
\* field or with a body that is not valid JSON; the whole string is not
\* parsed.
C7_FirstFencedBlock ==
    (pc = "extracted" /\ HasOutputString /\ HasFence(api_response.output)) =>
        /\ Len(loaded) = 1
        /\ FirstBodies(api_response.output) = {loaded[1]}
        /\ detected_objects = Expected(loaded[1])
        /\ "exception" \notin ui

C7_Witness ==
    /\ pc = "extracted"
    /\ HasOutputString
    /\ api_response.output = <<"T", "J", "N", "B", "N", "T", "N", "T">>
    /\ loaded = << <<"B">> >>
    /\ detected_objects = [type |-> "list", items |-> <<"dog", "cat">>]

PayloadFailure ==
    /\ api_response.top = "list"
    /\ \/ api_response.first # "dict"
       \/ api_response.outkind \in {"num", "null"}
       \/ /\ api_response.outkind \in {"absent", "str"}
          /\ IF HasFence(api_response.output)
             THEN \E b \in FirstBodies(api_response.output) : ~IsObjectText(b)
             ELSE ~IsObjectText(api_response.output)

DirectParseFailure ==
    /\ PayloadFailure
    /\ api_response.first = "dict"
    /\ api_response.outkind \in {"absent", "str"}
    /\ ~HasFence(api_response.output)

\* C9 as stated: every failure to locate or parse the payload is absorbed,
\* reported with a diagnostic, and gives []; none is absorbed silently.
C9_NoSilentFailure ==
    (pc = "extracted" /\ PayloadFailure) =>
        /\ detected_objects = EmptyList
        /\ "exception" \notin ui
        /\ "extract_error" \in ui

\* C9 amended: every such failure is absorbed and gives []; a diagnostic
\* is reported for a malformed first element, an "output" that is not a
\* string and a fenced body that does not parse to an object, and none
\* for a failure of the direct parse of an unfenced output string.
C9_FailureAbsorbed ==
    (pc = "extracted" /\ PayloadFailure) =>
        /\ detected_objects = EmptyList
        /\ "exception" \notin ui
        /\ "extract_error" \in ui <=> ~DirectParseFailure

C9_Witness ==
    /\ pc = "extracted"
    /\ HasOutputString
    /\ api_response.output = <<"T", "J", "N", "X", "N", "T">>
    /\ ui = {"extract_error"}
    /\ detected_objects = EmptyList

\* C10: whatever the input mode, the image handed to the JPEG encoder is
\* plain RGB with the input's size: RGBA, LA and P are pasted on a white
\* canvas with the alpha band as mask (P through RGBA), other modes are
\* converted, RGB is left alone.
C10_AlwaysRGB ==
    pc = "encoded" =>
        /\ img_str.format = "JPEG"
        /\ img_str.mode = "RGB"
        /\ img_str.bands = <<"R", "G", "B">>
        /\ img_str.w = image.w /\ img_str.h = image.h
        /\ image.mode \in {"RGBA", "LA", "P"}
               => (img_str.how = "pasted" /\ img_str.mask = "A")
        /\ image.mode \notin {"RGBA", "LA", "P", "RGB"}
               => img_str.how = "converted"
        /\ image.mode = "RGB" => img_str.how = "decoded"

C10_Witness ==
    /\ pc = "encoded"
    /\ image.mode = "P" /\ image.transparency
    /\ img_str.mode = "RGB" /\ img_str.mask = "A"

====
